---- MODULE Spec2Model ----
(***************************************************************************)
(* Model of programs/stablecoin/src/lib.rs: the issuance controller of a   *)
(* fiat-pegged token (initialize, mint_tokens, redeem_tokens, pause,       *)
(* unpause) together with the accounts it reads and writes.                *)
(*                                                                         *)
(* Every instruction is a transaction: it either runs to the end or leaves *)
(* every account as it was.  An instruction is modelled as a pure operator *)
(* from the accounts and the inputs to the accounts after it and the error *)
(* it returns, and as an action that installs that result.                 *)
(*                                                                         *)
(* Widths.  TLC's integers are 32 bits wide, so u64 and f64 are modelled   *)
(* at reduced width: a u64 has U64Bits bits and an f64 is a binary float   *)
(* with an F64Bits-bit significand, round-to-nearest, ties-to-even, as in  *)
(* IEEE 754.  Strings are modelled by their length in bytes.               *)
(***************************************************************************)
EXTENDS Integers, Sequences, FiniteSets, TLC

\* ------------------------------------------------------------------ bounds
U64Bits == 3
F64Bits == 2
MaxSupply == 2

InitSupply == 1

\* ------------------------------------------------------------------ numbers
U64_MAX == 2^U64Bits - 1

Max(a, b) == IF a >= b THEN a ELSE b

Pow10(n) == 10^n

\* A float is 0, or [m, e] standing for m * 2^e with the significand m
\* normalised to F64Bits bits (2^(F64Bits-1) <= m < 2^F64Bits); sgn is its sign.
FZero == [sgn |-> 0, m |-> 0, e |-> 0]

ExpRange == (0 - 16) .. 16

\* num * 2^(-e) / den as a pair of naturals (numerator, denominator)
Scaled(num, den, e) ==
    IF e >= 0 THEN [n |-> num, d |-> den * 2^e] ELSE [n |-> num * 2^(0 - e), d |-> den]

\* The float nearest to num/den (num, den > 0): round to nearest, ties to even.
RoundPos(num, den) ==
    LET e == CHOOSE x \in ExpRange :
                 LET s == Scaled(num, den, x)
                 IN  /\ s.n >= 2^(F64Bits - 1) * s.d
                     /\ s.n < 2^F64Bits * s.d
        s == Scaled(num, den, e)
        q == s.n \div s.d
        r == s.n % s.d
        up == \/ 2 * r > s.d
              \/ (2 * r = s.d /\ q % 2 = 1)
        m == IF up THEN q + 1 ELSE q
    IN  IF m = 2^F64Bits
        THEN [sgn |-> 1, m |-> 2^(F64Bits - 1), e |-> e + 1]
        ELSE [sgn |-> 1, m |-> m, e |-> e]

\* `amount_fiat as f64`
U64AsF64(n) == IF n = 0 THEN FZero ELSE RoundPos(n, 1)

\* x / y for floats x >= 0 and y > 0
F64Div(x, y) ==
    IF x.sgn = 0 THEN FZero
    ELSE RoundPos(x.m * 2^Max(x.e - y.e, 0), y.m * 2^Max(y.e - x.e, 0))

\* `f as u64`: truncates toward zero and saturates at u64::MAX
F64AsU64(x) ==
    IF x.sgn <= 0 THEN 0
    ELSE IF x.e < 0 THEN x.m \div 2^(0 - x.e)
    ELSE IF x.e >= U64Bits THEN U64_MAX
    ELSE IF x.m * 2^x.e > U64_MAX THEN U64_MAX
    ELSE x.m * 2^x.e

\* ------------------------------------------------------------------ universe
Users == {"alice", "bob"}

ConfigKeys == {"cfgA", "cfgB"}

MintKeys == {"mintA", "mintB"}

\* An address nothing has been created at: owned by the system program, no data.
NoAccount == [owner |-> "system_program"]

None == [is_some |-> FALSE]

Ok == "Ok"

\* Lengths in bytes of the strings initialize is called with.
NameLens == {4, 61, 300}

SymbolLens == {3}

IconUriLens == {10}

TargetCurrencyLens == {3}

\* The samples the oracle maintainer publishes: mantissa / 10^scale.
OracleSamples ==
    { [mantissa |-> 5, scale |-> 1],
      [mantissa |-> 1, scale |-> 0],
      [mantissa |-> 10, scale |-> 0],
      [mantissa |-> 0, scale |-> 0],
      [mantissa |-> 0 - 1, scale |-> 0],
      [mantissa |-> 1, scale |-> 29],
      [mantissa |-> 0 - 1, scale |-> 29] }

\* ------------------------------------------------------------------ state
VARIABLES
    stablecoin_config,  \* ConfigKeys -> StablecoinConfig record or NoAccount
    mint,               \* MintKeys -> the token program's Mint or NoAccount
    token_account,      \* <<mint key, owner>> -> amount of the associated token account
    oracle,             \* the aggregator account: its latest confirmed round
    last                \* the last instruction processed and the error it returned

vars == <<stablecoin_config, mint, token_account, oracle, last>>

\* The accounts an instruction can be handed.
Accounts ==
    [config |-> stablecoin_config, mint |-> mint, token |-> token_account,
     oracle |-> oracle]

\* ------------------------------------------------------------------ errors
ProgramPaused == "ProgramPaused"

Unauthorized == "Unauthorized"

InvalidOracleData == "InvalidOracleData"

InvalidOraclePrice == "InvalidOraclePrice"

InvalidTokenAmount == "InvalidTokenAmount"

OracleNotInitialized == "OracleNotInitialized"

\* Errors of the runtime and of the token program.
AccountAlreadyInUse == "AccountAlreadyInUse"

AccountDidNotSerialize == "AccountDidNotSerialize"

TokenOverflow == "TokenOverflow"

InsufficientFunds == "InsufficientFunds"

\* A failed instruction: the transaction is rolled back.
Fail(A, e) == [acc |-> A, err |-> e, token_amount |-> 0]

\* ------------------------------------------------------------------ StablecoinConfig
NAME_LEN == 64

SYMBOL_LEN == 16

ICON_URI_LEN == 128

TARGET_CURRENCY_LEN == 16

LEN == 8 + 32 + 32 + NAME_LEN + SYMBOL_LEN + ICON_URI_LEN + TARGET_CURRENCY_LEN + 1

\* Borsh writes a String as a u32 length followed by the bytes.
BorshString(len) == 4 + len

\* The bytes the record takes when the account is written back.
SerializedSize(c) ==
    8 + 32 + 32 + BorshString(c.name) + BorshString(c.symbol)
      + BorshString(c.icon_uri) + BorshString(c.target_currency) + 1

mint_authority == "mint_authority"

\* ------------------------------------------------------------------ initialize
\* initialize writing paused = true.
initialize_paused(A, authority, ck, mk, name, symbol, icon_uri, target_currency) ==
    LET c == [authority |-> authority, mint |-> mk, name |-> name,
              symbol |-> symbol, icon_uri |-> icon_uri,
              target_currency |-> target_currency, paused |-> TRUE]
    IN  IF A.config[ck] # NoAccount \/ A.mint[mk] # NoAccount
        THEN Fail(A, AccountAlreadyInUse)
        ELSE IF SerializedSize(c) > LEN
        THEN Fail(A, AccountDidNotSerialize)
        ELSE [acc |-> [A EXCEPT !.config[ck] = c,
                                !.mint[mk] = [supply |-> 0, decimals |-> 6,
                                              mint_authority |-> mint_authority]],
              err |-> Ok, token_amount |-> 0]

\* initialize with init_if_needed on the config: an existing record is written over.
initialize_if_needed(A, authority, ck, mk, name, symbol, icon_uri, target_currency) ==
    LET c == [authority |-> authority, mint |-> mk, name |-> name,
              symbol |-> symbol, icon_uri |-> icon_uri,
              target_currency |-> target_currency, paused |-> FALSE]
    IN  IF A.mint[mk] # NoAccount
        THEN Fail(A, AccountAlreadyInUse)
        ELSE IF SerializedSize(c) > LEN
        THEN Fail(A, AccountDidNotSerialize)
        ELSE [acc |-> [A EXCEPT !.config[ck] = c,
                                !.mint[mk] = [supply |-> 0, decimals |-> 6,
                                              mint_authority |-> mint_authority]],
              err |-> Ok, token_amount |-> 0]

initialize(A, authority, ck, mk, name, symbol, icon_uri, target_currency) ==
    LET c == [authority |-> authority, mint |-> mk, name |-> name,
              symbol |-> symbol, icon_uri |-> icon_uri,
              target_currency |-> target_currency, paused |-> FALSE]
    IN  IF A.config[ck] # NoAccount \/ A.mint[mk] # NoAccount
        THEN Fail(A, AccountAlreadyInUse)
        ELSE IF SerializedSize(c) > LEN
        THEN Fail(A, AccountDidNotSerialize)
        ELSE [acc |-> [A EXCEPT !.config[ck] = c,
                                !.mint[mk] = [supply |-> 0, decimals |-> 6,
                                              mint_authority |-> mint_authority]],
              err |-> Ok, token_amount |-> 0]

\* ------------------------------------------------------------------ oracle
\* SwitchboardDecimal -> f64; rust_decimal holds at most 28 decimal places.
Representable(d) == d.scale <= 28

\* The conversion losing the sign of the mantissa.
try_into_f64_unsigned(d) ==
    IF d.mantissa = 0 THEN FZero
    ELSE IF d.mantissa > 0 THEN RoundPos(d.mantissa, Pow10(d.scale))
    ELSE RoundPos(0 - d.mantissa, Pow10(d.scale))

try_into_f64(d) ==
    IF d.mantissa = 0 THEN FZero
    ELSE IF d.mantissa > 0 THEN RoundPos(d.mantissa, Pow10(d.scale))
    ELSE [RoundPos(0 - d.mantissa, Pow10(d.scale)) EXCEPT !.sgn = 0 - 1]

\* ((amount_fiat as f64) / oracle_price) as u64
TokenAmount(amount_fiat, oracle_price) ==
    F64AsU64(F64Div(U64AsF64(amount_fiat), oracle_price))

\* The token account not tied to the signer: one fixed holder's account.
user_token_account_fixed(mk, user) == <<mk, "alice">>

\* associated_token::mint = mint, associated_token::authority = user
user_token_account(mk, user) == <<mk, user>>

\* ------------------------------------------------------------------ token program
\* mint_to raising the supply without crediting the destination account.
mint_to_supply_only(A, mk, to, authority, amount) ==
    IF A.mint[mk].mint_authority # authority
    THEN Fail(A, "OwnerMismatch")
    ELSE IF A.token[to] + amount > U64_MAX \/ A.mint[mk].supply + amount > U64_MAX
    THEN Fail(A, TokenOverflow)
    ELSE [acc |-> [A EXCEPT !.mint[mk].supply = @ + amount],
          err |-> Ok, token_amount |-> amount]

\* mint_to crediting the account before the supply check fails, with no rollback.
mint_to_partial(A, mk, to, authority, amount) ==
    IF A.mint[mk].mint_authority # authority
    THEN Fail(A, "OwnerMismatch")
    ELSE IF A.token[to] + amount > U64_MAX
    THEN Fail(A, TokenOverflow)
    ELSE IF A.mint[mk].supply + amount > U64_MAX
    THEN [acc |-> [A EXCEPT !.token[to] = @ + amount], err |-> TokenOverflow,
          token_amount |-> 0]
    ELSE [acc |-> [A EXCEPT !.token[to] = @ + amount, !.mint[mk].supply = @ + amount],
          err |-> Ok, token_amount |-> amount]

mint_to(A, mk, to, authority, amount) ==
    IF A.mint[mk].mint_authority # authority
    THEN Fail(A, "OwnerMismatch")
    ELSE IF A.token[to] + amount > U64_MAX \/ A.mint[mk].supply + amount > U64_MAX
    THEN Fail(A, TokenOverflow)
    ELSE [acc |-> [A EXCEPT !.token[to] = @ + amount, !.mint[mk].supply = @ + amount],
          err |-> Ok, token_amount |-> amount]

\* burn debiting the account and not the supply.
burn_keeps_supply(A, mk, from, authority, amount) ==
    IF from[2] # authority
    THEN Fail(A, "OwnerMismatch")
    ELSE IF A.token[from] < amount
    THEN Fail(A, InsufficientFunds)
    ELSE [acc |-> [A EXCEPT !.token[from] = @ - amount],
          err |-> Ok, token_amount |-> amount]

burn(A, mk, from, authority, amount) ==
    IF from[2] # authority
    THEN Fail(A, "OwnerMismatch")
    ELSE IF A.token[from] < amount
    THEN Fail(A, InsufficientFunds)
    ELSE [acc |-> [A EXCEPT !.token[from] = @ - amount, !.mint[mk].supply = @ - amount],
          err |-> Ok, token_amount |-> amount]

\* ------------------------------------------------------------------ mint_tokens
\* mint_tokens keeping the first round it saw in the config and pricing by it.
mint_tokens_cached(A, user, ck, mk, amount_fiat) ==
    IF A.oracle.latest_confirmed_round = None
    THEN Fail(A, OracleNotInitialized)
    ELSE IF A.config[ck].paused
    THEN Fail(A, ProgramPaused)
    ELSE LET round == IF "cached_round" \in DOMAIN A.config[ck]
                      THEN A.config[ck].cached_round
                      ELSE A.oracle.latest_confirmed_round
             B == [A EXCEPT !.config[ck] = [cached_round |-> round] @@ @]
         IN  IF ~Representable(round)
             THEN Fail(A, InvalidOracleData)
             ELSE LET oracle_price == try_into_f64(round)
                      token_amount == TokenAmount(amount_fiat, oracle_price)
                  IN  IF ~(oracle_price.sgn > 0)
                      THEN Fail(A, InvalidOraclePrice)
                      ELSE IF ~(token_amount > 0)
                      THEN Fail(A, InvalidTokenAmount)
                      ELSE mint_to(B, mk, user_token_account(mk, user), mint_authority,
                                   token_amount)

\* mint_tokens converting the oracle round before it looks at the pause flag.
mint_tokens_oracle_first(A, user, ck, mk, amount_fiat) ==
    IF A.oracle.latest_confirmed_round = None
    THEN Fail(A, OracleNotInitialized)
    ELSE IF ~Representable(A.oracle.latest_confirmed_round)
    THEN Fail(A, InvalidOracleData)
    ELSE IF A.config[ck].paused
    THEN Fail(A, ProgramPaused)
    ELSE LET oracle_price == try_into_f64(A.oracle.latest_confirmed_round)
             token_amount == TokenAmount(amount_fiat, oracle_price)
         IN  IF ~(oracle_price.sgn > 0)
             THEN Fail(A, InvalidOraclePrice)
             ELSE IF ~(token_amount > 0)
             THEN Fail(A, InvalidTokenAmount)
             ELSE mint_to(A, mk, user_token_account(mk, user), mint_authority,
                          token_amount)

\* mint_tokens with the oracle constraint checked in the handler, after the pause flag.
mint_tokens_paused_first(A, user, ck, mk, amount_fiat) ==
    IF A.config[ck].paused
    THEN Fail(A, ProgramPaused)
    ELSE IF A.oracle.latest_confirmed_round = None
    THEN Fail(A, OracleNotInitialized)
    ELSE IF ~Representable(A.oracle.latest_confirmed_round)
    THEN Fail(A, InvalidOracleData)
    ELSE LET oracle_price == try_into_f64(A.oracle.latest_confirmed_round)
             token_amount == TokenAmount(amount_fiat, oracle_price)
         IN  IF ~(oracle_price.sgn > 0)
             THEN Fail(A, InvalidOraclePrice)
             ELSE IF ~(token_amount > 0)
             THEN Fail(A, InvalidTokenAmount)
             ELSE mint_to(A, mk, user_token_account(mk, user), mint_authority,
                          token_amount)

mint_tokens(A, user, ck, mk, amount_fiat) ==
    IF A.oracle.latest_confirmed_round = None
    THEN Fail(A, OracleNotInitialized)
    ELSE IF A.config[ck].paused
    THEN Fail(A, ProgramPaused)
    ELSE IF ~Representable(A.oracle.latest_confirmed_round)
    THEN Fail(A, InvalidOracleData)
    ELSE LET oracle_price == try_into_f64(A.oracle.latest_confirmed_round)
             token_amount == TokenAmount(amount_fiat, oracle_price)
         IN  IF ~(oracle_price.sgn > 0)
             THEN Fail(A, InvalidOraclePrice)
             ELSE IF ~(token_amount > 0)
             THEN Fail(A, InvalidTokenAmount)
             ELSE mint_to(A, mk, user_token_account(mk, user), mint_authority,
                          token_amount)

\* ------------------------------------------------------------------ redeem_tokens
\* redeem_tokens reading the oracle as mint_tokens does.
redeem_tokens_priced(A, user, ck, mk, token_amount) ==
    IF A.oracle.latest_confirmed_round = None THEN Fail(A, OracleNotInitialized)
    ELSE IF A.config[ck].paused THEN Fail(A, ProgramPaused)
    ELSE IF ~(A.oracle.latest_confirmed_round.mantissa > 0) THEN Fail(A, InvalidOraclePrice)
    ELSE burn(A, mk, user_token_account(mk, user), user, token_amount)

\* redeem_tokens without the pause check.
redeem_tokens_unguarded(A, user, ck, mk, token_amount) ==
    burn(A, mk, user_token_account(mk, user), user, token_amount)

redeem_tokens(A, user, ck, mk, token_amount) ==
    IF A.config[ck].paused
    THEN Fail(A, ProgramPaused)
    ELSE burn(A, mk, user_token_account(mk, user), user, token_amount)

\* ------------------------------------------------------------------ pause / unpause
\* pause recording its signer as the authority.
pause_claims_authority(A, authority, ck) ==
    [acc |-> [A EXCEPT !.config[ck].paused = TRUE, !.config[ck].authority = authority],
     err |-> Ok, token_amount |-> 0]

\* pause without the authority check.
pause_unchecked(A, authority, ck) ==
    [acc |-> [A EXCEPT !.config[ck].paused = TRUE], err |-> Ok, token_amount |-> 0]

\* pause flipping the flag.
pause_toggles(A, authority, ck) ==
    IF ~(authority = A.config[ck].authority)
    THEN Fail(A, Unauthorized)
    ELSE [acc |-> [A EXCEPT !.config[ck].paused = ~@], err |-> Ok,
          token_amount |-> 0]

pause(A, authority, ck) ==
    IF ~(authority = A.config[ck].authority)
    THEN Fail(A, Unauthorized)
    ELSE [acc |-> [A EXCEPT !.config[ck].paused = TRUE], err |-> Ok,
          token_amount |-> 0]

\* unpause written as a copy of pause.
unpause_sets_paused(A, authority, ck) ==
    IF ~(authority = A.config[ck].authority)
    THEN Fail(A, Unauthorized)
    ELSE [acc |-> [A EXCEPT !.config[ck].paused = TRUE], err |-> Ok,
          token_amount |-> 0]

unpause(A, authority, ck) ==
    IF ~(authority = A.config[ck].authority)
    THEN Fail(A, Unauthorized)
    ELSE [acc |-> [A EXCEPT !.config[ck].paused = FALSE], err |-> Ok,
          token_amount |-> 0]

\* ------------------------------------------------------------------ actions
\* The accounts after the instruction, and what is known of it afterwards: the
\* instruction, its signer, the config and mint it was handed, the error it
\* returned, the tokens it minted or burned, whether it changed any account.
Commit(op, signer, ck, mk, r) ==
    /\ stablecoin_config' = r.acc.config
    /\ mint' = r.acc.mint
    /\ token_account' = r.acc.token
    /\ oracle' = r.acc.oracle
    /\ last' = [op |-> op, signer |-> signer, config |-> ck, mint |-> mk,
                err |-> r.err, amount |-> r.token_amount,
                changed |-> (r.acc # Accounts)]

\* Account<StablecoinConfig> and Account<Mint> only load initialised accounts.
Loaded(A, ck, mk) == A.config[ck] # NoAccount /\ A.mint[mk] # NoAccount

Initialize(authority, ck, mk, name, symbol, icon_uri, target_currency) ==
    /\ authority \in Users
    /\ Commit("initialize", authority, ck, mk,
              initialize(Accounts, authority, ck, mk, name, symbol, icon_uri,
                         target_currency))

MintTokens(user, ck, mk, amount_fiat) ==
    /\ Loaded(Accounts, ck, mk)
    /\ Commit("mint_tokens", user, ck, mk,
              mint_tokens(Accounts, user, ck, mk, amount_fiat))

RedeemTokens(user, ck, mk, token_amount) ==
    /\ Loaded(Accounts, ck, mk)
    /\ Commit("redeem_tokens", user, ck, mk,
              redeem_tokens(Accounts, user, ck, mk, token_amount))

Pause(authority, ck) ==
    /\ stablecoin_config[ck] # NoAccount
    /\ Commit("pause", authority, ck, "none", pause(Accounts, authority, ck))

Unpause(authority, ck) ==
    /\ stablecoin_config[ck] # NoAccount
    /\ Commit("unpause", authority, ck, "none", unpause(Accounts, authority, ck))

\* The oracle maintainer confirms a round.
OracleUpdate(sample) ==
    /\ oracle' = [latest_confirmed_round |-> sample]
    /\ last' = [op |-> "oracle_update", signer |-> "oracle", config |-> "none",
                mint |-> "none", err |-> Ok, amount |-> 0,
                changed |-> (oracle.latest_confirmed_round # sample)]
    /\ UNCHANGED <<stablecoin_config, mint, token_account>>

Init ==
    /\ stablecoin_config = [ck \in ConfigKeys |-> NoAccount]
    /\ mint = [mk \in MintKeys |-> NoAccount]
    /\ token_account = [a \in MintKeys \X Users |-> 0]
    /\ oracle = [latest_confirmed_round |-> None]
    /\ last = [op |-> "none", signer |-> "none", config |-> "none", mint |-> "none",
               err |-> Ok, amount |-> 0, changed |-> FALSE]

\* One instruction, or one oracle round, with the inputs drawn from the given sets;
\* cap bounds the supply the explored mints grow to (MaxSupply, InitSupply).
Step(CK, MK, names, samples, fiat, tokens, cap) ==
    \/ \E authority \in Users, ck \in CK, mk \in MK,
          name \in names, symbol \in SymbolLens, icon_uri \in IconUriLens,
          target_currency \in TargetCurrencyLens :
          Initialize(authority, ck, mk, name, symbol, icon_uri, target_currency)
    \/ \E user \in Users, ck \in CK, mk \in MK, amount_fiat \in fiat :
          /\ MintTokens(user, ck, mk, amount_fiat)
          /\ mint'[mk].supply <= cap
    \/ \E user \in Users, ck \in CK, mk \in MK, token_amount \in tokens :
          RedeemTokens(user, ck, mk, token_amount)
    \/ \E authority \in Users, ck \in CK : Pause(authority, ck)
    \/ \E authority \in Users, ck \in CK : Unpause(authority, ck)
    \/ \E sample \in samples : OracleUpdate(sample)

\* The whole controller: two configs, two mints, two signers.
Next ==
    Step(ConfigKeys, MintKeys, {4}, {[mantissa |-> 1, scale |-> 0]},
         {0, 1}, {0, 1}, MaxSupply)

Spec == Init /\ [][Next]_vars

\* One config and one mint under every oracle sample; amounts of nothing, one
\* unit, two units and the largest of the width, supply up to the largest.
NextOracle ==
    Step({"cfgA"}, {"mintA"}, {4}, OracleSamples, {0, 1, 2, U64_MAX},
         {0, 1, 2, U64_MAX}, U64_MAX)

SpecOracle == Init /\ [][NextOracle]_vars

\* The failures of mint_tokens: one config and one mint under every oracle
\* sample, small amounts and a small supply.
NextErrors ==
    Step({"cfgA"}, {"mintA"}, {4}, OracleSamples, {0, 1}, {0, 1}, MaxSupply)

SpecErrors == Init /\ [][NextErrors]_vars

\* Creation: every metadata size, two configs and two mints.
NextInit ==
    Step(ConfigKeys, MintKeys, NameLens, {[mantissa |-> 1, scale |-> 0]},
         {1}, {1}, InitSupply)

SpecInit == Init /\ [][NextInit]_vars

\* ------------------------------------------------------------------ claims
Amounts == 0 .. U64_MAX

\* The (config, mint) pairs mint_tokens and redeem_tokens can be handed.
LoadedPairs == {p \in ConfigKeys \X MintKeys : Loaded(Accounts, p[1], p[2])}

Configs == {ck \in ConfigKeys : stablecoin_config[ck] # NoAccount}

HasRound == oracle.latest_confirmed_round # None

\* C1 as claimed: while the config handed to the call is paused, mint_tokens and
\* redeem_tokens fail with ProgramPaused for any input and any oracle state, and
\* change no account.
C1_PausedAlwaysProgramPaused ==
    \A p \in LoadedPairs, user \in Users, n \in Amounts :
        stablecoin_config[p[1]].paused =>
            /\ mint_tokens(Accounts, user, p[1], p[2], n) = Fail(Accounts, ProgramPaused)
            /\ redeem_tokens(Accounts, user, p[1], p[2], n) = Fail(Accounts, ProgramPaused)

\* C1 amended: while the config handed to the call is paused, redeem_tokens fails
\* with ProgramPaused and mint_tokens fails with ProgramPaused when the oracle has
\* a confirmed round and with OracleNotInitialized when it has none, for any
\* amount, caller and balance; no account changes.
C1_PausedBlocksMintAndRedeem ==
    \A p \in LoadedPairs, user \in Users, n \in Amounts :
        stablecoin_config[p[1]].paused =>
            /\ mint_tokens(Accounts, user, p[1], p[2], n) =
                   Fail(Accounts, IF HasRound THEN ProgramPaused
                                  ELSE OracleNotInitialized)
            /\ redeem_tokens(Accounts, user, p[1], p[2], n) = Fail(Accounts, ProgramPaused)

C1_Witness ==
    /\ last.op \in {"mint_tokens", "redeem_tokens"}
    /\ last.err = ProgramPaused
    /\ ~last.changed
    /\ stablecoin_config[last.config].paused
    /\ token_account[<<last.mint, last.signer>>] > 0

\* C2: pause and unpause by a signer other than the stored authority fail with
\* Unauthorized and change no account, whether the config is Active or Paused.
C2_NonAuthorityUnauthorized ==
    \A ck \in Configs, signer \in Users :
        signer # stablecoin_config[ck].authority =>
            /\ pause(Accounts, signer, ck) = Fail(Accounts, Unauthorized)
            /\ unpause(Accounts, signer, ck) = Fail(Accounts, Unauthorized)

C2_Witness ==
    /\ last.op = "unpause"
    /\ last.err = Unauthorized
    /\ ~last.changed
    /\ last.signer # stablecoin_config[last.config].authority
    /\ stablecoin_config[last.config].paused

\* C3: whatever the value of paused, pause and unpause succeed exactly when the
\* signer is the stored authority; a successful pause leaves paused = TRUE and a
\* successful unpause paused = FALSE, every other field and account as it was.
C3_AuthorityTogglesInAnyState ==
    \A ck \in Configs, signer \in Users :
        LET p == pause(Accounts, signer, ck)
            u == unpause(Accounts, signer, ck)
            auth == (signer = stablecoin_config[ck].authority)
        IN  /\ (p.err = Ok) <=> auth
            /\ (u.err = Ok) <=> auth
            /\ auth => /\ p.acc = [Accounts EXCEPT !.config[ck].paused = TRUE]
                       /\ u.acc = [Accounts EXCEPT !.config[ck].paused = FALSE]

\* A Paused config was returned to Active by its authority.
C3_Witness ==
    /\ last.op = "unpause"
    /\ last.err = Ok
    /\ last.changed
    /\ last.signer = stablecoin_config[last.config].authority
    /\ ~stablecoin_config[last.config].paused

\* floor(amount_fiat / rate) for the rate mantissa / 10^scale, in exact arithmetic.
FloorQuotient(amount_fiat, d) == (amount_fiat * Pow10(d.scale)) \div d.mantissa

\* The oracle's latest sample converts to a rate.
Converts == HasRound /\ Representable(oracle.latest_confirmed_round)

\* C4 as claimed: with the config Active and a confirmed round of rate r > 0,
\* mint_tokens(fiat_amount) succeeds iff floor(fiat_amount / r) > 0, then mints
\* exactly floor(fiat_amount / r) to the caller's account, and with a quotient of
\* 0 fails with InvalidTokenAmount and mints nothing.
C4_MintsFloorOfQuotient ==
    \A p \in LoadedPairs, user \in Users, n \in Amounts :
        ( /\ ~stablecoin_config[p[1]].paused
          /\ Converts
          /\ oracle.latest_confirmed_round.mantissa > 0 ) =>
            LET q == FloorQuotient(n, oracle.latest_confirmed_round)
                r == mint_tokens(Accounts, user, p[1], p[2], n)
                to == user_token_account(p[2], user)
            IN  /\ (r.err = Ok) <=> (q > 0)
                /\ q > 0 => /\ r.token_amount = q
                            /\ r.acc.token[to] = token_account[to] + q
                /\ q = 0 => r = Fail(Accounts, InvalidTokenAmount)

\* C5: while the oracle has no confirmed round, every mint_tokens call fails with
\* OracleNotInitialized, whatever the amount, the caller and the pause flag, and
\* changes no account.
C5_NoRoundOracleNotInitialized ==
    ~HasRound =>
        \A p \in LoadedPairs, user \in Users, n \in Amounts :
            mint_tokens(Accounts, user, p[1], p[2], n) =
                Fail(Accounts, OracleNotInitialized)

C5_Witness ==
    /\ last.op = "mint_tokens"
    /\ last.err = OracleNotInitialized
    /\ ~last.changed
    /\ ~HasRound
    /\ mint[last.mint].supply = 0

\* C6 as claimed: when the latest sample converts to a rate that is zero or
\* negative, mint_tokens fails with InvalidOraclePrice for every amount and
\* changes no account.
C6_NonPositiveRateInvalidOraclePrice ==
    (Converts /\ oracle.latest_confirmed_round.mantissa <= 0) =>
        \A p \in LoadedPairs, user \in Users, n \in Amounts :
            mint_tokens(Accounts, user, p[1], p[2], n) =
                Fail(Accounts, InvalidOraclePrice)

\* C6 amended: when the latest sample converts to a rate that is zero or negative
\* and the config handed to the call is Active, mint_tokens fails with
\* InvalidOraclePrice for every amount and changes no account.
C6_ActiveNonPositiveRateInvalidOraclePrice ==
    (Converts /\ oracle.latest_confirmed_round.mantissa <= 0) =>
        \A p \in LoadedPairs, user \in Users, n \in Amounts :
            ~stablecoin_config[p[1]].paused =>
                mint_tokens(Accounts, user, p[1], p[2], n) =
                    Fail(Accounts, InvalidOraclePrice)

C6_Witness ==
    /\ last.op = "mint_tokens"
    /\ last.err = InvalidOraclePrice
    /\ ~last.changed
    /\ Converts
    /\ oracle.latest_confirmed_round.mantissa < 0
    /\ ~stablecoin_config[last.config].paused

\* C7: a successful mint_tokens raises the caller's balance and the supply by
\* exactly the amount minted; redeem_tokens of that amount from the same account
\* right after it succeeds, burns exactly that amount, and leaves every account
\* as it was before the mint.
C7_MintThenRedeemRoundTrip ==
    \A p \in LoadedPairs, user \in Users, n \in Amounts :
        LET m == mint_tokens(Accounts, user, p[1], p[2], n)
            acct == user_token_account(p[2], user)
        IN  m.err = Ok =>
                LET b == redeem_tokens(m.acc, user, p[1], p[2], m.token_amount)
                IN  /\ m.token_amount > 0
                    /\ m.acc.token[acct] = token_account[acct] + m.token_amount
                    /\ m.acc.mint[p[2]].supply = mint[p[2]].supply + m.token_amount
                    /\ b.err = Ok
                    /\ b.token_amount = m.token_amount
                    /\ b.acc.token[acct] = m.acc.token[acct] - m.token_amount
                    /\ b.acc = Accounts

\* The account is back at zero after a redeem of tokens that were minted to it.
C7_Witness ==
    /\ last.op = "redeem_tokens"
    /\ last.err = Ok
    /\ last.amount > 0
    /\ last.changed
    /\ token_account[<<last.mint, last.signer>>] = 0
    /\ mint[last.mint].supply = 0

\* C8: a config is created Active, and by initialize only; its paused flag then
\* changes only in a successful pause (to TRUE) or unpause (to FALSE) of that
\* config signed by its stored authority.
C8_PausedChangesOnlyByPauseUnpause ==
    [][\A ck \in ConfigKeys :
          /\ (stablecoin_config[ck] = NoAccount /\ stablecoin_config'[ck] # NoAccount) =>
                /\ last'.op = "initialize"
                /\ last'.config = ck
                /\ ~stablecoin_config'[ck].paused
          /\ stablecoin_config[ck] # NoAccount =>
                /\ stablecoin_config'[ck] # NoAccount
                /\ stablecoin_config'[ck].paused # stablecoin_config[ck].paused =>
                      /\ last'.op \in {"pause", "unpause"}
                      /\ last'.err = Ok
                      /\ last'.config = ck
                      /\ last'.signer = stablecoin_config[ck].authority
                      /\ stablecoin_config'[ck].paused = (last'.op = "pause")
      ]_vars

\* initialize of another record went through while a config stayed Paused.
C8_Witness ==
    /\ last.op = "initialize"
    /\ last.err = Ok
    /\ ~stablecoin_config[last.config].paused
    /\ \E ck \in Configs : ck # last.config /\ stablecoin_config[ck].paused

\* C9: two pause calls in a row by the authority both succeed and the second
\* leaves the accounts the first produced, Paused; likewise two unpause calls,
\* Active.
C9_PauseUnpauseIdempotent ==
    \A ck \in Configs :
        LET a == stablecoin_config[ck].authority
            p1 == pause(Accounts, a, ck)
            p2 == pause(p1.acc, a, ck)
            u1 == unpause(Accounts, a, ck)
            u2 == unpause(u1.acc, a, ck)
        IN  /\ p1.err = Ok /\ p2.err = Ok
            /\ p2.acc = p1.acc
            /\ p2.acc.config[ck].paused
            /\ u1.err = Ok /\ u2.err = Ok
            /\ u2.acc = u1.acc
            /\ ~u2.acc.config[ck].paused

\* A pause of a config that was Paused already succeeded and changed nothing.
C9_Witness ==
    /\ last.op = "pause"
    /\ last.err = Ok
    /\ ~last.changed
    /\ stablecoin_config[last.config].paused

\* C10: no StablecoinConfig is persisted with a metadata field over its own byte
\* budget (length prefix included): initialize fails for such a field even when
\* the record as a whole fits in LEN.
C10_FieldBudgetsEnforced ==
    \A ck \in Configs :
        /\ BorshString(stablecoin_config[ck].name) <= NAME_LEN
        /\ BorshString(stablecoin_config[ck].symbol) <= SYMBOL_LEN
        /\ BorshString(stablecoin_config[ck].icon_uri) <= ICON_URI_LEN
        /\ BorshString(stablecoin_config[ck].target_currency) <= TARGET_CURRENCY_LEN

\* The outcome of every call that can be made on the accounts as they are.
InitializeResults ==
    {initialize(Accounts, a, ck, mk, n, s, i, t) :
        a \in Users, ck \in ConfigKeys, mk \in MintKeys, n \in NameLens,
        s \in SymbolLens, i \in IconUriLens, t \in TargetCurrencyLens}

MintResults ==
    {mint_tokens(Accounts, u, p[1], p[2], n) :
        u \in Users, p \in LoadedPairs, n \in Amounts}

RedeemResults ==
    {redeem_tokens(Accounts, u, p[1], p[2], n) :
        u \in Users, p \in LoadedPairs, n \in Amounts}

AdminResults ==
    {pause(Accounts, u, ck) : u \in Users, ck \in Configs}
        \cup {unpause(Accounts, u, ck) : u \in Users, ck \in Configs}

AllResults == InitializeResults \cup MintResults \cup RedeemResults \cup AdminResults

\* The six error kinds of StablecoinError.
StablecoinErrors ==
    {ProgramPaused, Unauthorized, InvalidOracleData, InvalidOraclePrice,
     InvalidTokenAmount, OracleNotInitialized}

\* The failures of account creation and of the mint/burn primitive.
ExternalErrors ==
    {AccountAlreadyInUse, AccountDidNotSerialize, TokenOverflow, InsufficientFunds}

C12_InitializeOnceOnly ==
    \A a \in Users, ck \in ConfigKeys, mk \in MintKeys, n \in NameLens,
       s \in SymbolLens, i \in IconUriLens, t \in TargetCurrencyLens :
        LET r == initialize(Accounts, a, ck, mk, n, s, i, t)
        IN  /\ stablecoin_config[ck] # NoAccount => r = Fail(Accounts, AccountAlreadyInUse)
            /\ r.err = Ok =>
                  /\ stablecoin_config[ck] = NoAccount /\ mint[mk] = NoAccount
                  /\ r.acc.config[ck] # NoAccount
                  /\ \A other \in ConfigKeys \ {ck} :
                        r.acc.config[other] = stablecoin_config[other]
                  /\ \A other \in MintKeys \ {mk} : r.acc.mint[other] = mint[other]
                  /\ r.acc.token = token_account
                  /\ r.acc.oracle = oracle

\* initialize by another signer on a Paused config failed and left it Paused.
C12_Witness ==
    /\ last.op = "initialize"
    /\ last.err = AccountAlreadyInUse
    /\ ~last.changed
    /\ stablecoin_config[last.config] # NoAccount
    /\ stablecoin_config[last.config].paused
    /\ stablecoin_config[last.config].authority # last.signer
    /\ mint[last.mint] = NoAccount

\* Every token account but the signer's own account of the mint handed in.
OtherAccounts(mk, user) == (MintKeys \X Users) \ {<<mk, user>>}

\* C13: for any signer, authority or not, a successful mint_tokens credits the
\* signer's own token account of the mint and a successful redeem_tokens debits
\* it, and no other token account changes; two signers with equal balances get
\* the same outcome, whichever of them is the stored authority.
C13_OnlyCallersAccount ==
    \A p \in LoadedPairs, user \in Users, n \in Amounts :
        LET m == mint_tokens(Accounts, user, p[1], p[2], n)
            b == redeem_tokens(Accounts, user, p[1], p[2], n)
            own == <<p[2], user>>
        IN  /\ m.err = Ok =>
                  /\ m.acc.token[own] = token_account[own] + m.token_amount
                  /\ \A o \in OtherAccounts(p[2], user) :
                        m.acc.token[o] = token_account[o]
            /\ b.err = Ok =>
                  /\ b.acc.token[own] = token_account[own] - n
                  /\ \A o \in OtherAccounts(p[2], user) :
                        b.acc.token[o] = token_account[o]
            /\ \A v \in Users \ {user} :
                  token_account[<<p[2], v>>] = token_account[own] =>
                      LET mv == mint_tokens(Accounts, v, p[1], p[2], n)
                          bv == redeem_tokens(Accounts, v, p[1], p[2], n)
                      IN  /\ mv.err = m.err /\ mv.token_amount = m.token_amount
                          /\ bv.err = b.err /\ bv.token_amount = b.token_amount

\* A signer who is not the authority minted to their own account while the
\* authority's balance stayed as it was.
C13_Witness ==
    /\ last.op = "mint_tokens"
    /\ last.err = Ok
    /\ last.signer # stablecoin_config[last.config].authority
    /\ token_account[<<last.mint, last.signer>>] = last.amount
    /\ token_account[<<last.mint, stablecoin_config[last.config].authority>>] > 0

\* The fields of a StablecoinConfig other than paused.
Immutable(c) ==
    [authority |-> c.authority, mint |-> c.mint, name |-> c.name, symbol |-> c.symbol,
     icon_uri |-> c.icon_uri, target_currency |-> c.target_currency]

\* C14: once a StablecoinConfig exists, no step (mint_tokens, redeem_tokens, pause,
\* unpause by any signer, a repeated initialize, an oracle update) changes its
\* authority, mint, name, symbol, icon_uri or target_currency, and the record stays.
C14_ConfigFieldsImmutable ==
    [][\A ck \in ConfigKeys :
          stablecoin_config[ck] # NoAccount =>
              /\ stablecoin_config'[ck] # NoAccount
              /\ Immutable(stablecoin_config'[ck]) = Immutable(stablecoin_config[ck])]_vars

\* A holder who is not the authority redeemed under a config created with a
\* 61-byte name by the other signer.
C14_Witness ==
    /\ last.op = "redeem_tokens"
    /\ last.err = Ok
    /\ last.changed
    /\ stablecoin_config[last.config].authority # last.signer
    /\ stablecoin_config[last.config].name = 61
    /\ Immutable(stablecoin_config[last.config]) =
          [authority |-> stablecoin_config[last.config].authority,
           mint |-> stablecoin_config[last.config].mint, name |-> 61, symbol |-> 3,
           icon_uri |-> 10, target_currency |-> 3]

\* C15: while the StablecoinConfig whose mint field is M is Paused, no step changes
\* the supply of M or any balance of M, whichever StablecoinConfig the call passes.
C15_PauseGatesLinkedMint ==
    [][\A ck \in ConfigKeys :
          (stablecoin_config[ck] # NoAccount /\ stablecoin_config[ck].paused) =>
              LET M == stablecoin_config[ck].mint
              IN  /\ mint'[M] = mint[M]
                  /\ \A u \in Users : token_account'[<<M, u>>] = token_account[<<M, u>>]]_vars

\* The accounts with the oracle showing another round (or none).
WithRound(round) == [Accounts EXCEPT !.oracle = [latest_confirmed_round |-> round]]

\* C16: under an Active config, redeem_tokens(token_amount) by any signer succeeds
\* exactly when the signer's own balance is at least token_amount, then takes
\* exactly token_amount off that balance and off the supply, and otherwise fails
\* for lack of funds; with any other oracle round, or none, the result is the same.
C16_RedeemIffBalanceSuffices ==
    \A p \in LoadedPairs, user \in Users, n \in Amounts :
        ~stablecoin_config[p[1]].paused =>
            LET b == redeem_tokens(Accounts, user, p[1], p[2], n)
                own == <<p[2], user>>
            IN  /\ (b.err = Ok) <=> (token_account[own] >= n)
                /\ b.err = Ok =>
                      /\ b.token_amount = n
                      /\ b.acc.token[own] = token_account[own] - n
                      /\ b.acc.mint[p[2]].supply = mint[p[2]].supply - n
                /\ b.err # Ok => b = Fail(Accounts, InsufficientFunds)
                /\ \A round \in OracleSamples \cup {None} :
                      LET o == redeem_tokens(WithRound(round), user, p[1], p[2], n)
                      IN  /\ o.err = b.err
                          /\ o.token_amount = b.token_amount
                          /\ o.acc.token = b.acc.token
                          /\ o.acc.mint = b.acc.mint
                          /\ o.acc.config = b.acc.config

\* A holder redeemed one token while the oracle's confirmed rate was not positive.
C16_Witness ==
    /\ last.op = "redeem_tokens"
    /\ last.err = Ok
    /\ last.amount = 1
    /\ ~stablecoin_config[last.config].paused
    /\ oracle.latest_confirmed_round # None
    /\ oracle.latest_confirmed_round.mantissa <= 0
    /\ token_account[<<last.mint, last.signer>>] > 0

RECURSIVE SumOfBalances(_, _)
\* The sum of the balances the holders in S have of mint mk.
SumOfBalances(mk, S) ==
    IF S = {} THEN 0
    ELSE LET u == CHOOSE x \in S : TRUE
         IN  token_account[<<mk, u>>] + SumOfBalances(mk, S \ {u})

\* Supply and balances of mint mk are the same after the step.
SupplyUnchanged(mk) ==
    /\ mint'[mk] = mint[mk]
    /\ \A u \in Users : token_account'[<<mk, u>>] = token_account[<<mk, u>>]

\* C17 (state part): every balance is a non-negative u64, a mint that does not
\* exist has no holders, and the supply of an existing mint is the sum of the
\* balances of its holders.
SupplyConserved ==
    /\ \A a \in MintKeys \X Users : token_account[a] \in 0 .. U64_MAX
    /\ \A mk \in MintKeys :
          IF mint[mk] = NoAccount
          THEN SumOfBalances(mk, Users) = 0
          ELSE mint[mk].supply = SumOfBalances(mk, Users)

\* C17 (step part): the supply and the balances of a mint change only in a
\* successful mint_tokens on it, by the token_amount computed from some amount_fiat
\* and credited to the signer, or in a successful redeem_tokens on it, by the
\* token_amount taken from the signer; initialize creates a mint with supply 0.
SupplyMoves ==
    \A mk \in MintKeys :
        \/ mint[mk] # NoAccount /\ SupplyUnchanged(mk)
        \/ /\ mint[mk] = NoAccount
           /\ \A u \in Users : token_account'[<<mk, u>>] = token_account[<<mk, u>>]
           /\ \/ mint'[mk] = NoAccount
              \/ last'.op = "initialize" /\ last'.err = Ok /\ mint'[mk].supply = 0
        \/ /\ mint[mk] # NoAccount
           /\ last'.op = "mint_tokens" /\ last'.err = Ok /\ last'.mint = mk
           /\ last'.amount > 0
           /\ \E n \in Amounts :
                 mint_tokens(Accounts, last'.signer, last'.config, mk, n).token_amount
                    = last'.amount
           /\ mint'[mk].supply = mint[mk].supply + last'.amount
           /\ token_account'[<<mk, last'.signer>>] =
                 token_account[<<mk, last'.signer>>] + last'.amount
        \/ /\ mint[mk] # NoAccount
           /\ last'.op = "redeem_tokens" /\ last'.err = Ok /\ last'.mint = mk
           /\ mint'[mk].supply = mint[mk].supply - last'.amount
           /\ token_account'[<<mk, last'.signer>>] =
                 token_account[<<mk, last'.signer>>] - last'.amount

\* C17: supply conservation holds in every reachable state and every step moves
\* supply and balances only as a successful mint_tokens or redeem_tokens does.
C17_SupplyConservation == []SupplyConserved /\ [][SupplyMoves]_vars

\* Both holders have tokens, one of them just redeemed one, and the supply is
\* the sum of what the two still hold.
C17_Witness ==
    /\ last.op = "redeem_tokens"
    /\ last.err = Ok
    /\ last.amount = 1
    /\ token_account[<<last.mint, "alice">>] > 0
    /\ token_account[<<last.mint, "bob">>] > 0
    /\ mint[last.mint].supply =
          token_account[<<last.mint, "alice">>] + token_account[<<last.mint, "bob">>]

\* The confirmed round has more decimal places than a Decimal holds.
BadData == HasRound /\ ~Representable(oracle.latest_confirmed_round)

\* The confirmed round is a rate of zero or less.
BadPrice == HasRound /\ oracle.latest_confirmed_round.mantissa <= 0

\* amount_fiat buys no token: it is zero, or its quotient by a positive rate is.
BadAmount(n) ==
    \/ n = 0
    \/ /\ Converts
       /\ oracle.latest_confirmed_round.mantissa > 0
       /\ TokenAmount(n, try_into_f64(oracle.latest_confirmed_round)) = 0

\* C18: when several failure conditions of mint_tokens hold at once the error is
\* that of the first in the order no round (OracleNotInitialized), paused
\* (ProgramPaused), unconvertible round (InvalidOracleData), non-positive rate
\* (InvalidOraclePrice), zero token amount (InvalidTokenAmount); a failed call
\* returns that one error and changes nothing, and when no condition holds the
\* call reaches the token program.
C18_ErrorPrecedence ==
    \A p \in LoadedPairs, user \in Users, n \in Amounts :
        LET r == mint_tokens(Accounts, user, p[1], p[2], n)
            paused == stablecoin_config[p[1]].paused
        IN  /\ ~HasRound => r.err = OracleNotInitialized
            /\ (HasRound /\ paused) => r.err = ProgramPaused
            /\ (~paused /\ BadData) => r.err = InvalidOracleData
            /\ (~paused /\ ~BadData /\ BadPrice) => r.err = InvalidOraclePrice
            /\ (HasRound /\ ~paused /\ ~BadData /\ ~BadPrice /\ BadAmount(n)) =>
                  r.err = InvalidTokenAmount
            /\ (HasRound /\ ~paused /\ ~BadData /\ ~BadPrice /\ ~BadAmount(n)) =>
                  r.err \in {Ok, TokenOverflow}
            /\ r.err # Ok => r = Fail(Accounts, r.err)

\* mint_tokens answered ProgramPaused while the round was also unconvertible and
\* not positive.
C18_Witness ==
    /\ last.op = "mint_tokens"
    /\ last.err = ProgramPaused
    /\ ~last.changed
    /\ stablecoin_config[last.config].paused
    /\ BadData
    /\ BadPrice

\* The accounts with no history: Active config, no tokens issued, the oracle as it
\* is now.
NoHistory(ck, mk) ==
    [Accounts EXCEPT !.config[ck].paused = FALSE,
                     !.mint[mk].supply = 0,
                     !.token = [a \in DOMAIN token_account |-> 0]]

\* C19: whatever rounds and mints came before, mint_tokens under an Active config
\* gives the error and the token_amount it gives on accounts without history under
\* the oracle round current at the call (unless the token program refuses the
\* amount for overflow), and it leaves the StablecoinConfig and the oracle as
\* they were.
C19_NoOracleCaching ==
    \A p \in LoadedPairs, n \in Amounts :
        LET q == mint_tokens(NoHistory(p[1], p[2]), "alice", p[1], p[2], n)
        IN  \A user \in Users :
                LET r == mint_tokens(Accounts, user, p[1], p[2], n)
                IN  /\ r.acc.config = stablecoin_config
                    /\ r.acc.oracle = oracle
                    /\ ~stablecoin_config[p[1]].paused =>
                          /\ r.err \in {q.err, TokenOverflow}
                          /\ q.err # Ok => r.err = q.err
                          /\ r.err = Ok => r.token_amount = q.token_amount

\* A mint at rate 0.5 gave two tokens for one unit, on top of a supply that
\* mints at that rate alone cannot have produced.
C19_Witness ==
    /\ last.op = "mint_tokens"
    /\ last.err = Ok
    /\ last.amount = 2
    /\ oracle.latest_confirmed_round = [mantissa |-> 5, scale |-> 1]
    /\ mint[last.mint].supply > last.amount
    /\ (mint[last.mint].supply - last.amount) % 2 = 1

====
